---- MODULE Spec2Model ----
(***************************************************************************)
(* Model of the interactive terminal feedback engine of ls-merge:          *)
(*   - SelectPrompt (src/unnamed/part_000), a single-choice list navigator *)
(*     built on the Prompt base;                                           *)
(*   - Spinner (src/src/lib/Spinner.js), a timer-driven status line.       *)
(* An object of the program is one record-valued variable; a method is an  *)
(* operator from the object before the call to the object after it, so a   *)
(* handler that calls other methods is the composition of their operators. *)
(***************************************************************************)
EXTENDS Integers, Sequences, FiniteSets, TLC

VARIABLES
    prompt,     \* the SelectPrompt instance (`this` of part_000) and its output
    spinner,    \* the Spinner instance, its stream and the timers of the event loop
    op,         \* name of the last operation performed (history variable)
    arg,        \* argument of the last operation (history variable)
    pre,        \* the object on which the last operation began (history variable)
    keys,       \* number of key events delivered so far
    trace,      \* names of the key events delivered so far (kept by ScenarioSpec only)
    tracing,    \* TRUE when trace is kept
    wrapper,    \* one invocation of the async-action wrapper promise()
    paging      \* the tag-selection paging loop of the merge script

vars == <<prompt, spinner, op, arg, pre, keys, trace, tracing, wrapper, paging>>

(***************************************************************************)
(* Bounds of the model.                                                    *)
(***************************************************************************)
MaxChoices == 3     \* longest choice list
MaxKeys == 5        \* key events delivered to one prompt

(***************************************************************************)
(* JavaScript values.  Every value of the model is a string; `undefined`   *)
(* is the string "undefined".                                              *)
(***************************************************************************)
Undefined == "undefined"

\* JavaScript truthiness of a string-or-undefined value.
Truthy(x) == x # Undefined /\ x # ""

\* a || b on string-or-undefined values.
OrElse(a, b) == IF Truthy(a) THEN a ELSE b

Letters == <<"a", "b", "c", "d", "e", "f">>
Digits == <<"1", "2", "3", "4", "5", "6">>

(***************************************************************************)
(* Choice descriptors handed to the constructor: a bare scalar, or an      *)
(* object {title, value, disabled}.  A property read on a scalar string    *)
(* yields undefined.                                                       *)
(***************************************************************************)
ScalarChoice(i) ==
    [kind |-> "scalar", scalar |-> Letters[i], title |-> Undefined,
     value |-> Undefined, disabled |-> FALSE]

ObjectChoice(i, d) ==
    [kind |-> "object", scalar |-> Undefined, title |-> Letters[i],
     value |-> Digits[i], disabled |-> d]

Descriptors(i) == {ScalarChoice(i)} \cup {ObjectChoice(i, d) : d \in BOOLEAN}

ChoiceLists ==
    UNION {{c \in [1..n -> UNION {Descriptors(i) : i \in 1..n}] :
                \A i \in 1..n : c[i] \in Descriptors(i)} : n \in 1..MaxChoices}

\* v.title, v.value, v.disabled of a descriptor v
PropTitle(v) == IF v.kind = "object" THEN v.title ELSE Undefined
PropValue(v) == IF v.kind = "object" THEN v.value ELSE Undefined
PropDisabled(v) == v.kind = "object" /\ v.disabled

(***************************************************************************)
(* Output of the prompt: the writes of the last operation, in order.       *)
(***************************************************************************)
Tok(t, n, s, sym) == [t |-> t, n |-> n, s |-> s, sym |-> sym]

CursorHide == Tok("cursor.hide", 0, "", "")
CursorShow == Tok("cursor.show", 0, "", "")
EraseLines(n) == Tok("erase.lines", n, "", "")
Beep == Tok("beep", 0, "", "")
Newline == Tok("newline", 0, "", "")

DefaultHint == "- Use arrow-keys. Return to submit."
DefaultWarn == "- This option is disabled"

(***************************************************************************)
(* Prompt base (./prompt, not among the sources): the first-render flag,   *)
(* bell(), fire(), render() and close(), as the specification's contract   *)
(* of the base describes them.                                             *)
(***************************************************************************)
\* style.symbol(done, aborted) of ../util
symbol(done, aborted) ==
    IF aborted THEN "fail" ELSE IF done THEN "success" ELSE "neutral"

\* this.out.write(tok); a handler that has thrown runs no further statement
write(this, tok) ==
    IF this.thrown THEN this ELSE [this EXCEPT !.out = Append(@, tok)]

\* Prompt.bell(): one beep on the output stream
bell(this) == write(this, Beep)

\* Prompt.fire(): notifies the listeners of the current value; no state changes
fire(this) == IF this.thrown THEN this ELSE [this EXCEPT !.fires = @ + 1]

\* Prompt.render(): the base's part of a render, which ends the first render
superRender(this) ==
    IF this.thrown THEN this ELSE [this EXCEPT !.firstRender = FALSE]

\* Prompt.close(): shows the cursor again, stops listening to the keyboard
close(this) ==
    IF this.thrown THEN this ELSE [write(this, CursorShow) EXCEPT !.closed = TRUE]

(***************************************************************************)
(* SelectPrompt (src/unnamed/part_000).  cursor is 0-based as in the code; *)
(* values is a TLA+ sequence, so values[cursor + 1] is this.values[cursor].*)
(* Reading a property of this.values[n] for an n outside the list throws a *)
(* TypeError: the statements before it have run, those after it do not.    *)
(***************************************************************************)
\* the callback of opts.choices.map in the constructor
normalize(v) ==
    [title |-> IF v.kind = "object"
               THEN OrElse(PropTitle(v), OrElse(PropValue(v), Undefined))
               ELSE OrElse(PropTitle(v), OrElse(PropValue(v), v.scalar)),
     value |-> IF v.kind = "object" THEN v.value ELSE v.scalar,
     disabled |-> PropDisabled(v)]

\* get selection()
selection(this) == this.values[this.cursor + 1]

\* the prompt line's last part
tail(this) ==
    IF this.done THEN selection(this).title
    ELSE IF selection(this).disabled THEN DefaultWarn ELSE DefaultHint

\* this.first as render() reads it: the class defines the method first(), and
\* the Prompt base is given no property of that name, so the value read is
\* that function
thisFirst(this) == "function"

render(this) ==
    IF this.closed \/ this.thrown THEN this
    ELSE LET head == IF Truthy(thisFirst(this)) THEN CursorHide
                     ELSE EraseLines(Len(this.values) + 1)
             drawn == superRender(write(this, head))
             line == Tok("prompt", 1, tail(this), symbol(this.done, this.aborted))
             list == Tok("choices", Len(this.values), selection(this).title, "")
         IN IF this.done THEN write(drawn, line)
            ELSE write(write(drawn, line), list)

moveCursor(this, n) ==
    IF this.thrown THEN this
    ELSE IF n \notin 0..(Len(this.values) - 1)
    THEN [this EXCEPT !.cursor = n, !.thrown = TRUE]
    ELSE fire([this EXCEPT !.cursor = n, !.value = this.values[n + 1].value])

reset(this) == render(fire(moveCursor(this, 0)))

\* abort() that rejects a disabled selection the way submit() does
abort_rejecting(this) ==
    IF selection(this).disabled THEN bell(this)
    ELSE close(write(render(fire([this EXCEPT !.done = TRUE, !.aborted = TRUE])),
                     Newline))

abort(this) ==
    LET marked == [this EXCEPT !.done = TRUE, !.aborted = TRUE]
    IN close(write(render(fire(marked)), Newline))

\* submit() without the test of the selection's disabled flag
submit_unchecked(this) ==
    close(write(render(fire([this EXCEPT !.done = TRUE, !.aborted = FALSE])), Newline))

\* submit() that does not close the prompt
submit_unclosed(this) ==
    IF ~selection(this).disabled
    THEN write(render(fire([this EXCEPT !.done = TRUE, !.aborted = FALSE])), Newline)
    ELSE bell(this)

submit(this) ==
    IF ~selection(this).disabled
    THEN LET marked == [this EXCEPT !.done = TRUE, !.aborted = FALSE]
         IN close(write(render(fire(marked)), Newline))
    ELSE bell(this)

first(this) == render(moveCursor(this, 0))

\* last() that aims one past the end of the list
last_offByOne(this) == render(moveCursor(this, Len(this.values)))

last(this) == render(moveCursor(this, Len(this.values) - 1))

\* up() that wraps to the last choice instead of stopping at the first
up_wrapping(this) ==
    IF this.cursor = 0 THEN render(moveCursor(this, Len(this.values) - 1))
    ELSE render(moveCursor(this, this.cursor - 1))

up(this) ==
    IF this.cursor = 0 THEN bell(this)
    ELSE render(moveCursor(this, this.cursor - 1))

\* down() that refuses to step onto a disabled choice
down_skipping(this) ==
    IF this.cursor = Len(this.values) - 1 THEN bell(this)
    ELSE IF this.values[this.cursor + 2].disabled THEN bell(this)
    ELSE render(moveCursor(this, this.cursor + 1))

down(this) ==
    IF this.cursor = Len(this.values) - 1 THEN bell(this)
    ELSE render(moveCursor(this, this.cursor + 1))

\* next() that stops at the last choice the way down() does
next_stopping(this) ==
    IF this.cursor = Len(this.values) - 1 THEN bell(this)
    ELSE render(moveCursor(this, this.cursor + 1))

next(this) == render(moveCursor(this, (this.cursor + 1) % Len(this.values)))

\* _(c, key): the handler of the keys that have no named action
underscore(this, c) == IF c = " " THEN submit(this) ELSE this

\* constructor(opts): opts.choices = choices, opts.initial = initial
\* (a number, or -1 for an absent opts.initial)
SelectPrompt(choices, initial) ==
    LET cur == IF initial = -1 THEN 0 ELSE initial
        built == [values |-> [i \in 1..Len(choices) |-> normalize(choices[i])],
                  choices |-> choices,
                  cursor |-> cur,
                  value |-> PropValue(choices[cur + 1]),
                  done |-> FALSE,
                  aborted |-> FALSE,
                  closed |-> FALSE,
                  firstRender |-> TRUE,
                  thrown |-> FALSE,
                  out |-> <<>>,
                  fires |-> 0]
    IN render(built)

(***************************************************************************)
(* Spinner (src/src/lib/Spinner.js).  A text is a sequence of characters,  *)
(* each a string: "\n" ends a line, "W" is a wide glyph of two columns,    *)
(* "ESC" stands for one whole ANSI escape sequence, any other character    *)
(* takes one column.                                                       *)
(***************************************************************************)
MaxFrames == 2      \* longest frame set of a spinner
WideColumns == 4    \* a narrow terminal, so that the texts wrap

Glyphs == <<"f0", "f1", "f2", "f3">>

Loading == <<"L", "o", "a", "d", "i", "n", "g">>

Texts == {<<>>, Loading, <<"a", "b", "\n", "c", "d", "e">>, <<"W", "ESC", "a">>}

\* stream.columns: 0 stands for a stream that has no columns property
Columns == {0, WideColumns}

\* strip-ansi: drops the escape sequences
RECURSIVE stripAnsi(_)
stripAnsi(t) ==
    IF t = <<>> THEN <<>>
    ELSE IF Head(t) = "ESC" THEN stripAnsi(Tail(t))
    ELSE <<Head(t)>> \o stripAnsi(Tail(t))

\* String.prototype.split('\n'): the lines of a text, at least one
RECURSIVE split(_)
split(t) ==
    IF \A i \in 1..Len(t) : t[i] # "\n" THEN <<t>>
    ELSE LET k == CHOOSE i \in 1..Len(t) :
                      t[i] = "\n" /\ \A j \in 1..(i - 1) : t[j] # "\n"
         IN <<SubSeq(t, 1, k - 1)>> \o split(SubSeq(t, k + 1, Len(t)))

\* wcwidth of a line
RECURSIVE wcwidth(_)
wcwidth(line) ==
    IF line = <<>> THEN 0
    ELSE (IF Head(line) = "W" THEN 2 ELSE 1) + wcwidth(Tail(line))

\* Math.ceil(a / b) for a >= 0, b > 0
ceilDiv(a, b) == (a + b - 1) \div b

Max(a, b) == IF a >= b THEN a ELSE b

RECURSIVE countRows(_, _)
countRows(lines, columns) ==
    IF lines = <<>> THEN 0
    ELSE Max(1, ceilDiv(wcwidth(Head(lines)), columns))
         + countRows(Tail(lines), columns)

\* the text setter's row count without the '--' that stands for the frame
\* glyph and the separator
lineCountOf_noPrefix(value, streamColumns) ==
    LET columns == IF streamColumns = 0 THEN 80 ELSE streamColumns
    IN countRows(split(stripAnsi(value)), columns)

\* the reduce of the text setter: rows of '--' + value at the stream's width
lineCountOf(value, streamColumns) ==
    LET columns == IF streamColumns = 0 THEN 80 ELSE streamColumns
    IN countRows(split(stripAnsi(<<"-", "-">> \o value)), columns)

\* calls made on the stream (and on cli-cursor) by the last operation
Call(c, s, color) == [c |-> c, s |-> s, color |-> color]
Write(s, color) == Call("write", s, color)
MoveUp == Call("moveCursor(0,-1)", <<>>, "")
ClearLine == Call("clearLine", <<>>, "")
CursorTo0 == Call("cursorTo(0)", <<>>, "")
HideCursor == Call("cliCursor.hide", <<>>, "")
ShowCursor == Call("cliCursor.show", <<>>, "")

\* set text(value)
Spinner_setText(this, value) ==
    [this EXCEPT !.text = value, !.lineCount = lineCountOf(value, this.columns)]

\* get isSpinning(); the id 0 is null
Spinner_isSpinning(this) == this.id # 0

\* frameIndex after ++this.frameIndex % 0
NaN == -1

\* frame(): the string it returns; frames[frameIndex] is undefined when
\* frameIndex is no index of frames
frameText(this) ==
    <<IF this.frameIndex + 1 \in 1..Len(this.frames)
      THEN this.frames[this.frameIndex + 1] ELSE Undefined>> \o <<" ">> \o this.text

\* frame(): advances frameIndex
Spinner_frame(this) ==
    [this EXCEPT !.frameIndex = IF Len(this.frames) = 0 \/ this.frameIndex = NaN
                                THEN NaN
                                ELSE (this.frameIndex + 1) % Len(this.frames)]

\* the calls of clear()'s loop for n rows
RECURSIVE clearCalls(_, _)
clearCalls(i, n) ==
    IF i >= n THEN <<>>
    ELSE (IF i > 0 THEN <<MoveUp>> ELSE <<>>) \o <<ClearLine, CursorTo0>>
         \o clearCalls(i + 1, n)

\* rows a written string occupies on a terminal of the stream's width
rowsOf(written, streamColumns) ==
    LET columns == IF streamColumns = 0 THEN 80 ELSE streamColumns
    IN countRows(split(stripAnsi(written)), columns)

\* clear() that erases lineCount rows, whatever was rendered
Spinner_clear_lineCount(this) ==
    IF ~this.isEnabled \/ ~this.isTTY THEN this
    ELSE [this EXCEPT !.calls = @ \o clearCalls(0, this.lineCount),
                      !.screenRows = Max(0, @ - this.lineCount),
                      !.persistedErased =
                          @ \/ (this.persisted /\ this.lineCount > this.screenRows),
                      !.linesToClear = 0]

\* clear(); screenRows is the number of rows of the last frame written that
\* are still on the screen, persisted tells that a persisted line stands right
\* above them, persistedErased that a clear went on above the first row of
\* the frame and so erased that line
Spinner_clear(this) ==
    IF ~this.isEnabled \/ ~this.isTTY THEN this
    ELSE [this EXCEPT !.calls = @ \o clearCalls(0, this.linesToClear),
                      !.screenRows = Max(0, @ - this.linesToClear),
                      !.persistedErased =
                          @ \/ (this.persisted /\ this.linesToClear > this.screenRows),
                      !.linesToClear = 0]

Spinner_render(this) ==
    LET cleared == Spinner_clear(this)
        written == [Spinner_frame(cleared) EXCEPT
                        !.calls = Append(@, Write(frameText(cleared), cleared.color)),
                        !.screenRows = rowsOf(frameText(cleared), cleared.columns)]
    IN [written EXCEPT !.linesToClear = written.lineCount]

\* setInterval: a handle that no live timer has
newTimer(this) == CHOOSE n \in 1..(Cardinality(this.timers) + 1) : n \notin this.timers

\* start() that animates whether or not the spinner is enabled
Spinner_start_unconditional(this, text) ==
    LET named == IF text # <<>> THEN Spinner_setText(this, text) ELSE this
    IN IF Spinner_isSpinning(named) THEN named
       ELSE LET hidden == IF named.hideCursor
                          THEN [named EXCEPT !.calls = Append(@, HideCursor)]
                          ELSE named
                shown == Spinner_render(hidden)
            IN [shown EXCEPT !.id = newTimer(shown),
                             !.timers = @ \cup {newTimer(shown)}]

\* start() without the early return of a spinning spinner
Spinner_start_restarting(this, text) ==
    LET named == IF text # <<>> THEN Spinner_setText(this, text) ELSE this
    IN IF ~named.isEnabled
       THEN [named EXCEPT !.calls = Append(@, Write(<<"-", " ">> \o named.text \o <<"\n">>, ""))]
       ELSE LET hidden == IF named.hideCursor
                          THEN [named EXCEPT !.calls = Append(@, HideCursor)]
                          ELSE named
                shown == Spinner_render(hidden)
            IN [shown EXCEPT !.id = newTimer(shown),
                             !.timers = @ \cup {newTimer(shown)}]

\* start(text); text = <<>> is also what an absent argument does
Spinner_start(this, text) ==
    LET named == IF text # <<>> THEN Spinner_setText(this, text) ELSE this
    IN IF ~named.isEnabled
       THEN [named EXCEPT !.calls = Append(@, Write(<<"-", " ">> \o named.text \o <<"\n">>, ""))]
       ELSE IF Spinner_isSpinning(named) THEN named
       ELSE LET hidden == IF named.hideCursor
                          THEN [named EXCEPT !.calls = Append(@, HideCursor)]
                          ELSE named
                shown == Spinner_render(hidden)
            IN [shown EXCEPT !.id = newTimer(shown),
                             !.timers = @ \cup {newTimer(shown)}]

\* stop() that forgets clearInterval(this.id)
Spinner_stop_leaking(this) ==
    IF ~this.isEnabled THEN this
    ELSE LET halted == [this EXCEPT !.id = 0, !.frameIndex = 0]
             cleared == Spinner_clear(halted)
         IN IF cleared.hideCursor
            THEN [cleared EXCEPT !.calls = Append(@, ShowCursor)]
            ELSE cleared

\* stop() without the early return of a disabled spinner
Spinner_stop_unguarded(this) ==
    LET halted == [this EXCEPT !.timers = @ \ {this.id}, !.id = 0,
                               !.frameIndex = 0]
        cleared == Spinner_clear(halted)
    IN IF cleared.hideCursor
       THEN [cleared EXCEPT !.calls = Append(@, ShowCursor)]
       ELSE cleared

Spinner_stop(this) ==
    IF ~this.isEnabled THEN this
    ELSE LET halted == [this EXCEPT !.timers = @ \ {this.id}, !.id = 0,
                                    !.frameIndex = 0]
             cleared == Spinner_clear(halted)
         IN IF cleared.hideCursor
            THEN [cleared EXCEPT !.calls = Append(@, ShowCursor)]
            ELSE cleared

(***************************************************************************)
(* JavaScript values that an action resolves to or fails with: type is the *)
(* typeof tag ("error" for an Error object), str is String(value) for a    *)
(* value that is not an error, message is the message property of an       *)
(* error.                                                                  *)
(***************************************************************************)
JSValue(type, str, message) == [type |-> type, str |-> str, message |-> message]

JSNull == JSValue("null", <<"null">>, <<>>)
JSUndefined == JSValue("undefined", <<"undefined">>, <<>>)
JSString(t) == JSValue("string", t, <<>>)
JSNumber42 == JSValue("number", <<"4", "2">>, <<>>)
JSObject == JSValue("object", <<"[object Object]">>, <<>>)
JSError(m) == JSValue("error", <<"Error">>, m)

Saved == <<"S", "a", "v", "e", "d">>
Boom == <<"b", "o", "o", "m">>

Results == {JSString(Saved), JSString(<<>>), JSNumber42, JSObject, JSUndefined}
\* an action fails with an Error, or with no reason at all (reject(), throw
\* undefined)
Failures == {JSError(Boom), JSError(<<>>), JSUndefined}

(***************************************************************************)
(* Options of succeed/fail/warn/info/stopAndPersist: absent, a string, or  *)
(* an object {text, symbol, color}, each property optional.  A symbol or   *)
(* color of "" is an absent property.                                      *)
(***************************************************************************)
NoOpts == [kind |-> "undefined", hasText |-> FALSE, text |-> <<>>,
           symbol |-> "", color |-> ""]
StringOpts(t) == [kind |-> "string", hasText |-> TRUE, text |-> t,
                  symbol |-> "", color |-> ""]
ObjectOpts(has, t, sym) == [kind |-> "object", hasText |-> has, text |-> t,
                            symbol |-> sym, color |-> ""]

PersistOpts == {NoOpts, StringOpts(Loading), ObjectOpts(FALSE, <<>>, "*")}

\* typeof opts === 'string' ? {text: opts} : opts, with opts = {} by default
asObject(opts) ==
    IF opts.kind = "string" THEN ObjectOpts(TRUE, opts.text, "")
    ELSE IF opts.kind = "undefined" THEN ObjectOpts(FALSE, <<>>, "")
    ELSE opts

\* _.merge(defaults, opts): the properties opts defines replace the defaults
merge(defaults, opts) ==
    [kind |-> "object",
     hasText |-> defaults.hasText \/ opts.hasText,
     text |-> IF opts.hasText THEN opts.text ELSE defaults.text,
     symbol |-> IF opts.symbol # "" THEN opts.symbol ELSE defaults.symbol,
     color |-> IF opts.color # "" THEN opts.color ELSE defaults.color]

Preset(sym, color) == [kind |-> "object", hasText |-> FALSE, text |-> <<>>,
                       symbol |-> sym, color |-> color]

Spinner_stopAndPersist(this, opts) ==
    LET stopped == Spinner_stop(this)
        o == merge([kind |-> "object", hasText |-> TRUE, text |-> stopped.text,
                    symbol |-> " U+2008", color |-> "cyan"], asObject(opts))
    IN [stopped EXCEPT !.calls =
            Append(@, Write(<<o.symbol, "U+2008">> \o o.text \o <<"\n">>, o.color)),
                       !.persisted = TRUE]

Spinner_succeed(this, opts) ==
    Spinner_stopAndPersist(this, merge(Preset("success", "green"), asObject(opts)))

Spinner_fail(this, opts) ==
    Spinner_stopAndPersist(this, merge(Preset("error", "red.bold"), asObject(opts)))

Spinner_warn(this, opts) ==
    Spinner_stopAndPersist(this, merge(Preset("warning", "yellow"), asObject(opts)))

Spinner_info(this, opts) ==
    Spinner_stopAndPersist(this, merge(Preset("info", "blue"), asObject(opts)))

\* constructor(options): options.isEnabled is "true", "false" or "undefined";
\* tty is stream.isTTY, ci is process.env.CI
Spinner(text, nframes, hideCursor, enabledOpt, tty, ci, streamColumns) ==
    [frames |-> SubSeq(Glyphs, 1, nframes),
     color |-> "cyan",
     hideCursor |-> hideCursor,
     isTTY |-> tty,
     columns |-> streamColumns,
     id |-> 0,
     frameIndex |-> 0,
     isEnabled |-> IF enabledOpt # "undefined" THEN enabledOpt = "true"
                   ELSE tty /\ ~ci,
     lastResult |-> JSNull,
     text |-> text,
     lineCount |-> lineCountOf(text, streamColumns),
     linesToClear |-> 0,
     screenRows |-> 0,
     persisted |-> FALSE,
     persistedErased |-> FALSE,
     timers |-> {},
     calls |-> <<>>]

(***************************************************************************)
(* The async-action wrapper, module.exports.promise(action, options,       *)
(* {success, failure}).  An action is an async function, a promise in      *)
(* flight, a plain function or null.  The third argument is missing or an  *)
(* object whose success and failure are each absent or a string.           *)
(***************************************************************************)
Actions == {"asyncFunction", "promise", "function", "null"}

NoOverride == [given |-> FALSE, s |-> <<>>]
Override(t) == [given |-> TRUE, s |-> t]
OverrideValues == {NoOverride, Override(<<>>), Override(Saved)}

NoOverrides == [present |-> FALSE, success |-> NoOverride, failure |-> NoOverride]
Overrides(s, f) == [present |-> TRUE, success |-> s, failure |-> f]
OverridesArgs == {NoOverrides} \cup {Overrides(s, f) : s, f \in OverrideValues}

\* func != null && (func[Symbol.toStringTag] === 'AsyncFunction' || ...)
isAsyncFunction(func) == func # "null" /\ func = "asyncFunction"

typeCheck_lax(action) == TRUE

\* action instanceof Promise || isAsyncFunction(action)
typeCheck(action) == action = "promise" \/ isAsyncFunction(action)

\* truthiness of (message != null && String(message))
overrideUsed(message) == message.given /\ message.s # <<>>

\* a settled value as succeed() reads it: a string is the text, undefined is
\* the default {}, a number or an object without text, symbol or color
\* contributes nothing to the merge
optsOf(v) ==
    IF v.type = "string" THEN StringOpts(v.str)
    ELSE IF v.type = "undefined" THEN NoOpts
    ELSE ObjectOpts(FALSE, <<>>, "")

IdleWrapper ==
    [pc |-> "idle", action |-> "null", overrides |-> NoOverrides,
     constructed |-> FALSE, startedFirst |-> FALSE, invoked |-> FALSE,
     returned |-> FALSE, error |-> "", outcome |-> "", value |-> JSNull]

\* the call with action() and action.then() moved before start()
promise_call_lateStart(w, idle, action, created, overrides) ==
    LET bound == [w EXCEPT !.action = action, !.overrides = overrides]
    IN IF ~overrides.present \/ ~typeCheck(action)
       THEN [wrapper |-> [bound EXCEPT !.pc = "rejected", !.error = "TypeError"],
             spinner |-> idle]
       ELSE IF isAsyncFunction(action)
       THEN [wrapper |-> [bound EXCEPT !.pc = "awaiting", !.constructed = TRUE,
                                       !.startedFirst = created.calls # <<>>,
                                       !.invoked = TRUE],
             spinner |-> Spinner_start(created, <<>>)]
       ELSE [wrapper |-> [bound EXCEPT !.pc = "attached", !.constructed = TRUE,
                                       !.startedFirst = created.calls # <<>>,
                                       !.returned = TRUE],
             spinner |-> Spinner_start(created, <<>>)]

\* the synchronous part of the call: parameter binding, the type check,
\* new Spinner(options).start(), then action() or action.then().catch();
\* startedFirst records whether start() had made its calls on the stream when
\* the action was invoked or its callbacks were attached
promise_call(w, idle, action, created, overrides) ==
    LET bound == [w EXCEPT !.action = action, !.overrides = overrides]
        started == Spinner_start(created, <<>>)
    IN IF ~overrides.present \/ ~typeCheck(action)
       THEN [wrapper |-> [bound EXCEPT !.pc = "rejected", !.error = "TypeError"],
             spinner |-> idle]
       ELSE IF isAsyncFunction(action)
       THEN [wrapper |-> [bound EXCEPT !.pc = "awaiting", !.constructed = TRUE,
                                       !.startedFirst = started.calls # <<>>,
                                       !.invoked = TRUE],
             spinner |-> started]
       ELSE [wrapper |-> [bound EXCEPT !.pc = "attached", !.constructed = TRUE,
                                       !.startedFirst = started.calls # <<>>,
                                       !.returned = TRUE],
             spinner |-> started]

\* the action resolves with result: the continuation of the await, or the
\* callback given to then()
promise_resolved(w, this, result) ==
    LET success == w.overrides.success
        settled == [w EXCEPT !.pc = "settled", !.outcome = "resolved",
                             !.value = result, !.returned = TRUE]
    IN IF isAsyncFunction(w.action)
       THEN LET cached == [this EXCEPT !.lastResult = result]
            IN [wrapper |-> settled,
                spinner |-> IF overrideUsed(success)
                            THEN Spinner_succeed(cached, StringOpts(success.s))
                            ELSE Spinner_succeed(cached, optsOf(cached.lastResult))]
       ELSE [wrapper |-> settled,
             spinner |-> IF overrideUsed(success)
                         THEN Spinner_succeed(this, StringOpts(success.s))
                         ELSE Spinner_succeed([this EXCEPT !.lastResult = result],
                                              optsOf(result))]

\* the action fails with err: the catch block, or the callback given to
\* catch().  Reading .message of undefined throws a TypeError after the
\* assignment to lastResult: in the async-function form the wrapper rejects
\* with it, in the promise form it is lost in the promise catch() returns.
promise_rejected(w, this, err) ==
    LET failure == w.overrides.failure
        settled == [w EXCEPT !.pc = "settled", !.outcome = "rejected", !.value = err]
    IN IF overrideUsed(failure)
       THEN [wrapper |-> [settled EXCEPT !.returned = TRUE],
             spinner |-> Spinner_fail(this, StringOpts(failure.s))]
       ELSE IF err.type = "undefined"
       THEN [wrapper |-> IF isAsyncFunction(w.action)
                         THEN [settled EXCEPT !.error = "TypeError"]
                         ELSE settled,
             spinner |-> [this EXCEPT !.lastResult = err]]
       ELSE [wrapper |-> [settled EXCEPT !.returned = TRUE],
             spinner |-> Spinner_fail([this EXCEPT !.lastResult = err],
                                      StringOpts(err.message))]

(***************************************************************************)
(* The tag-selection paging loop of the merge script.  tags is the list    *)
(* ['master', 'dev'] followed by the lines of `git tag -l`; a choice value *)
(* is the index of a tag in that list, PREV or NEXT.  The list is held by  *)
(* its length; choice starts undefined.                                    *)
(***************************************************************************)
PAGE_SIZE == 10
PREV == -2
NEXT == -1
NoChoice == -3

\* ['master', 'dev'].concat(output.split('\n')): split yields at least one line
MinTags == 3
MaxTags == 23

\* !choice || choice === PREV.value || choice === NEXT.value
loopCondition(choice) == choice = NoChoice \/ choice = 0 \/ choice = PREV \/ choice = NEXT

\* endPos of the page at offset
endPosOf(offset, tags) ==
    IF offset + PAGE_SIZE >= tags THEN tags - 1 ELSE offset + PAGE_SIZE

\* tags.map(...).slice(offset, endPos): the values offset .. endPos - 1
slice(offset, endPos) == [i \in 1..Max(0, endPos - offset) |-> offset + i - 1]

\* pageChoices after the two tests
pageChoicesOf(offset, tags) ==
    LET endPos == endPosOf(offset, tags)
    IN (IF offset > 0 THEN <<PREV>> ELSE <<>>)
       \o slice(offset, endPos)
       \o (IF endPos < tags - 1 THEN <<NEXT>> ELSE <<>>)

\* pageChoices.findIndex(c => c.value === choice)
findIndex(pageChoices, choice) ==
    IF \E i \in 1..Len(pageChoices) : pageChoices[i] = choice
    THEN (CHOOSE i \in 1..Len(pageChoices) :
              /\ pageChoices[i] = choice
              /\ \A j \in 1..(i - 1) : pageChoices[j] # choice) - 1
    ELSE -1

IdlePaging ==
    [pc |-> "idle", tags |-> MinTags, offset |-> 0, endPos |-> 0,
     pageChoices |-> <<>>, choice |-> NoChoice, selected |-> 0, tag |-> NoChoice]

(***************************************************************************)
(* Arguments of the last operation, for the history variable arg.          *)
(***************************************************************************)
NoArg == [c |-> "", text |-> <<>>, opts |-> NoOpts]
CharArg(c) == [c |-> c, text |-> <<>>, opts |-> NoOpts]
TextArg(t) == [c |-> "", text |-> t, opts |-> NoOpts]
OptsArg(o) == [c |-> "", text |-> <<>>, opts |-> o]

\* the objects the specification of the other component leaves alone
IdlePrompt == SelectPrompt(<<ScalarChoice(1)>>, -1)
IdleSpinner == Spinner(<<>>, 1, TRUE, "false", FALSE, FALSE, 0)

(***************************************************************************)
(* SelectPrompt: the key events.  The base dispatches a key to the handler *)
(* of its name for as long as the prompt listens, that is, until close();  *)
(* an exception that leaves a handler ends the process.                    *)
(***************************************************************************)
\* an operation starts with no write and no notification of its own
begin(this) == [this EXCEPT !.out = <<>>, !.fires = 0]

KeyEvent(name, a, after) ==
    /\ ~prompt.closed
    /\ ~prompt.thrown
    /\ keys < MaxKeys
    /\ prompt' = after
    /\ op' = name
    /\ arg' = a
    /\ pre' = begin(prompt)
    /\ keys' = keys + 1
    /\ trace' = IF tracing THEN Append(trace, name) ELSE trace
    /\ UNCHANGED <<spinner, tracing, wrapper, paging>>

KeyUp == KeyEvent("up", NoArg, up(begin(prompt)))
KeyDown == KeyEvent("down", NoArg, down(begin(prompt)))
KeyTab == KeyEvent("next", NoArg, next(begin(prompt)))
KeyHome == KeyEvent("first", NoArg, first(begin(prompt)))
KeyEnd == KeyEvent("last", NoArg, last(begin(prompt)))
KeyReset == KeyEvent("reset", NoArg, reset(begin(prompt)))
KeyReturn == KeyEvent("submit", NoArg, submit(begin(prompt)))
KeyAbort == KeyEvent("abort", NoArg, abort(begin(prompt)))
KeyChar == \E c \in {" ", "x"} : KeyEvent("_", CharArg(c), underscore(begin(prompt), c))

SelectInit ==
    /\ \E choices \in ChoiceLists : \E initial \in -1..(Len(choices) - 1) :
           prompt = SelectPrompt(choices, initial)
    /\ spinner = IdleSpinner
    /\ op = "constructor"
    /\ arg = NoArg
    /\ pre = prompt
    /\ keys = 0
    /\ trace = <<>>
    /\ tracing = FALSE
    /\ wrapper = IdleWrapper
    /\ paging = IdlePaging

SelectNext ==
    \/ KeyUp
    \/ KeyDown
    \/ KeyTab
    \/ KeyHome
    \/ KeyEnd
    \/ KeyReset
    \/ KeyReturn
    \/ KeyAbort
    \/ KeyChar

SelectSpec == SelectInit /\ [][SelectNext]_vars

\* the scenario of the specification: ["a", "b", {title: "c", value: 3, disabled: true}]
ScenarioChoices == <<ScalarChoice(1), ScalarChoice(2), ObjectChoice(3, TRUE)>>

ScenarioInit ==
    /\ prompt = SelectPrompt(ScenarioChoices, 0)
    /\ spinner = IdleSpinner
    /\ op = "constructor"
    /\ arg = NoArg
    /\ pre = prompt
    /\ keys = 0
    /\ trace = <<>>
    /\ tracing = TRUE
    /\ wrapper = IdleWrapper
    /\ paging = IdlePaging

ScenarioSpec == ScenarioInit /\ [][SelectNext]_vars

(***************************************************************************)
(* Spinner: the calls of its methods, the assignments to text, the ticks   *)
(* of the interval timers and the resizes of the terminal.                 *)
(***************************************************************************)
\* an operation starts with no call of its own on the stream
enter(this) == [this EXCEPT !.calls = <<>>]

SpinnerStep(name, a, after) ==
    /\ spinner' = after
    /\ op' = name
    /\ arg' = a
    /\ pre' = enter(spinner)
    /\ UNCHANGED <<prompt, keys, trace, tracing, wrapper, paging>>

Start == \E t \in Texts : SpinnerStep("start", TextArg(t), Spinner_start(enter(spinner), t))
Stop == SpinnerStep("stop", NoArg, Spinner_stop(enter(spinner)))
Succeed == \E o \in PersistOpts :
    SpinnerStep("succeed", OptsArg(o), Spinner_succeed(enter(spinner), o))
Fail == \E o \in PersistOpts :
    SpinnerStep("fail", OptsArg(o), Spinner_fail(enter(spinner), o))
Warn == \E o \in PersistOpts :
    SpinnerStep("warn", OptsArg(o), Spinner_warn(enter(spinner), o))
Info == \E o \in PersistOpts :
    SpinnerStep("info", OptsArg(o), Spinner_info(enter(spinner), o))
StopAndPersist == \E o \in PersistOpts :
    SpinnerStep("stopAndPersist", OptsArg(o), Spinner_stopAndPersist(enter(spinner), o))
SetText == \E t \in Texts :
    SpinnerStep("text=", TextArg(t), Spinner_setText(enter(spinner), t))

\* one tick of a live interval timer runs the render bound to it
Tick ==
    /\ spinner.timers # {}
    /\ SpinnerStep("tick", NoArg, Spinner_render(enter(spinner)))

\* the terminal is resized: stream.columns changes
Resize == \E c \in Columns :
    /\ c # spinner.columns
    /\ SpinnerStep("resize", NoArg, [enter(spinner) EXCEPT !.columns = c])

SpinnerInit ==
    /\ \E t \in Texts, n \in 1..MaxFrames, h \in BOOLEAN,
          e \in {"undefined", "true", "false"}, tty \in BOOLEAN, ci \in BOOLEAN,
          c \in Columns :
           spinner = Spinner(t, n, h, e, tty, ci, c)
    /\ prompt = IdlePrompt
    /\ op = "constructor"
    /\ arg = NoArg
    /\ pre = spinner
    /\ keys = 0
    /\ trace = <<>>
    /\ tracing = FALSE
    /\ wrapper = IdleWrapper
    /\ paging = IdlePaging

SpinnerNext ==
    \/ Start
    \/ Stop
    \/ Succeed
    \/ Fail
    \/ Warn
    \/ Info
    \/ StopAndPersist
    \/ SetText
    \/ Tick
    \/ Resize

SpinnerSpec == SpinnerInit /\ [][SpinnerNext]_vars

(***************************************************************************)
(* Properties of SelectPrompt.  pre is the prompt the last key event found *)
(* (with no write of that event yet), prompt is the prompt it left.        *)
(***************************************************************************)
\* the writes of the render that follows submit() or abort()
FinalRender(this, aborted) ==
    <<render(this).out[1],
      Tok("prompt", 1, selection(this).title, symbol(TRUE, aborted))>>

\* C1: submit() on a disabled selection rings the bell once and changes
\* nothing else (done stays false, no render, no close); submit() on an enabled
\* selection sets done, clears aborted, renders the final line once, writes a
\* newline and closes the prompt.
C1_Submit ==
    op = "submit" =>
        IF selection(pre).disabled
        THEN prompt = [pre EXCEPT !.out = <<Beep>>]
        ELSE prompt = [pre EXCEPT !.done = TRUE, !.aborted = FALSE, !.closed = TRUE,
                                  !.fires = 1,
                                  !.out = FinalRender(pre, FALSE)
                                          \o <<Newline, CursorShow>>]

C1_Witness ==
    /\ op = "submit"
    /\ selection(pre).disabled
    /\ ~prompt.done
    /\ prompt.out = <<Beep>>
    /\ keys >= 2

\* C2: up() at cursor 0 and down() at the last index ring the bell once and
\* leave the cursor, the value and everything else as they were (no wrap, no
\* render), also on a list of one choice.
C2_Boundary ==
    /\ (op = "up" /\ pre.cursor = 0) => prompt = [pre EXCEPT !.out = <<Beep>>]
    /\ (op = "down" /\ pre.cursor = Len(pre.values) - 1) =>
           prompt = [pre EXCEPT !.out = <<Beep>>]

C2_Witness ==
    /\ op = "up"
    /\ pre.cursor = 0
    /\ Len(pre.values) = 1
    /\ pre.cursor = Len(pre.values) - 1
    /\ keys >= 2
    /\ prompt.out = <<Beep>>

\* C3: next() moves the cursor to (cursor + 1) mod len, from the last index
\* back to 0, rings no bell, and sets value to the value of the choice at the
\* new cursor.
C3_Next ==
    op = "next" =>
        /\ prompt.cursor = (pre.cursor + 1) % Len(pre.values)
        /\ prompt.value = prompt.values[prompt.cursor + 1].value
        /\ \A i \in 1..Len(prompt.out) : prompt.out[i] # Beep
        /\ ~prompt.done

C3_Witness ==
    /\ op = "next"
    /\ Len(pre.values) >= 2
    /\ pre.cursor = Len(pre.values) - 1
    /\ prompt.cursor = 0

\* C4: abort() on an open prompt, whatever the cursor and whether or not the
\* selection is disabled, sets done and aborted, renders the final line,
\* writes a newline and closes, and leaves cursor and value unchanged.
C4_Abort ==
    op = "abort" =>
        prompt = [pre EXCEPT !.done = TRUE, !.aborted = TRUE, !.closed = TRUE,
                             !.fires = 1,
                             !.out = FinalRender(pre, TRUE) \o <<Newline, CursorShow>>]

C4_Witness ==
    /\ op = "abort"
    /\ selection(pre).disabled
    /\ pre.cursor > 0
    /\ prompt.done
    /\ prompt.aborted
    /\ prompt.closed

\* C5: the cursor always indexes a choice: 0 <= cursor < len, so that
\* values[cursor] is defined and no handler throws.
C5_CursorInRange ==
    /\ prompt.cursor \in 0..(Len(prompt.values) - 1)
    /\ ~prompt.thrown

C5_Witness ==
    /\ op = "last"
    /\ Len(prompt.values) = MaxChoices
    /\ pre.cursor = 0
    /\ prompt.cursor = Len(prompt.values) - 1

\* C6: the prompt's value is always the value of the choice at the cursor:
\* after construction (object and bare scalar descriptors alike), after every
\* cursor move and after submit.
C6_ValueIsSelection == prompt.value = selection(prompt).value

\* C7: done and aborted are terminal: once done is true no key event is
\* handled any more, so cursor, value, done, aborted and the output never
\* change again and no second abort()/submit() completes the prompt.
C7_Terminal == [][prompt.done => UNCHANGED <<prompt, op, keys>>]_vars

C7_Witness ==
    /\ prompt.done
    /\ ~prompt.aborted
    /\ op = "submit"
    /\ keys < MaxKeys

(***************************************************************************)
(* The scenario, checked under ScenarioSpec, which keeps the trace of the  *)
(* key events.                                                             *)
(***************************************************************************)
\* C8: with choices [a, b, c (disabled)] and cursor 0, two down() put the
\* cursor on the disabled entry 2, submit() there rings the bell and leaves
\* done false, up() moves to 1, and submit() then sets done with value "b".
C8_Scenario ==
    /\ trace = <<"down", "down">> =>
           /\ prompt.cursor = 2
           /\ selection(prompt).disabled
    /\ trace = <<"down", "down", "submit">> =>
           /\ prompt.cursor = 2
           /\ ~prompt.done
           /\ ~prompt.closed
           /\ prompt.out = <<Beep>>
    /\ trace = <<"down", "down", "submit", "up">> =>
           /\ prompt.cursor = 1
           /\ ~prompt.done
    /\ trace = <<"down", "down", "submit", "up", "submit">> =>
           /\ prompt.done
           /\ ~prompt.aborted
           /\ prompt.cursor = 1
           /\ prompt.value = "b"

C8_Witness ==
    /\ trace = <<"down", "down", "submit", "up", "submit">>
    /\ prompt.done
    /\ prompt.value = "b"

(***************************************************************************)
(* Properties of Spinner.  pre is the spinner the last operation found     *)
(* (with no call of that operation yet), spinner is the spinner it left.   *)
(***************************************************************************)
\* C9: on a disabled spinner start("Loading") writes the one line
\* "- Loading\n" and does nothing else on the stream: no timer is scheduled,
\* the cursor is not hidden and isSpinning stays false.
C9_DisabledStart ==
    (op = "start" /\ arg.text = Loading /\ ~pre.isEnabled) =>
        /\ spinner.calls =
               <<Write(<<"-", " ", "L", "o", "a", "d", "i", "n", "g", "\n">>, "")>>
        /\ spinner.timers = {}
        /\ ~Spinner_isSpinning(spinner)

C9_Witness ==
    /\ op = "start"
    /\ arg.text = Loading
    /\ ~pre.isEnabled
    /\ pre.isTTY
    /\ pre.hideCursor
    /\ Len(spinner.calls) = 1

\* C10: a live interval timer exists iff isSpinning is true, the live timer
\* is the one this.id names, and there is never more than one.
C10_TimerIffSpinning ==
    /\ (spinner.timers # {}) <=> Spinner_isSpinning(spinner)
    /\ Cardinality(spinner.timers) <= 1
    /\ Spinner_isSpinning(spinner) => spinner.timers = {spinner.id}

C10_Witness ==
    /\ op = "start"
    /\ Spinner_isSpinning(pre)
    /\ Spinner_isSpinning(spinner)
    /\ spinner.timers = {spinner.id}


\* C11: on an enabled terminal spinner linesToClear is always the number of
\* rows the frame on the screen occupies (0 when there is none), so that the
\* next clear removes exactly those rows.
C11_LinesToClear ==
    (spinner.isEnabled /\ spinner.isTTY) => spinner.linesToClear = spinner.screenRows


\* the number of stream.clearLine() calls of the last operation
LineClears(this) == Cardinality({i \in 1..Len(this.calls) : this.calls[i] = ClearLine})

\* C12: stop() on a spinning spinner (here: on a terminal stream) halts the
\* timer, resets frameIndex to 0, issues exactly as many line-clears as rows
\* the last rendered frame occupies, leaves linesToClear at 0 and shows the
\* cursor again if it had been hidden.
C12_Stop ==
    (op = "stop" /\ Spinner_isSpinning(pre) /\ pre.isTTY) =>
        /\ spinner.timers = {}
        /\ ~Spinner_isSpinning(spinner)
        /\ spinner.frameIndex = 0
        /\ LineClears(spinner) = pre.screenRows
        /\ spinner.linesToClear = 0
        /\ pre.hideCursor => spinner.calls[Len(spinner.calls)] = ShowCursor


(***************************************************************************)
(* The row count of the text setter as a function: RowCountSpec assigns    *)
(* every text of single-width characters and line breaks up to MaxTextLen  *)
(* characters, at every stream width up to MaxRowColumns.                  *)
(***************************************************************************)
MaxTextLen == 3
MaxRowColumns == 3

PlainTexts == UNION {[1..k -> {"a", "\n"}] : k \in 0..MaxTextLen}

RowSetText == \E t \in PlainTexts :
    SpinnerStep("text=", TextArg(t), Spinner_setText(enter(spinner), t))

RowResize == \E c \in 1..MaxRowColumns :
    /\ c # spinner.columns
    /\ SpinnerStep("resize", NoArg, [enter(spinner) EXCEPT !.columns = c])

RowCountInit ==
    /\ \E c \in 1..MaxRowColumns : spinner = Spinner(<<>>, 1, TRUE, "true", TRUE, FALSE, c)
    /\ prompt = IdlePrompt
    /\ op = "constructor"
    /\ arg = NoArg
    /\ pre = spinner
    /\ keys = 0
    /\ trace = <<>>
    /\ tracing = FALSE
    /\ wrapper = IdleWrapper
    /\ paging = IdlePaging

RowCountNext ==
    \/ RowSetText
    \/ RowResize

RowCountSpec == RowCountInit /\ [][RowCountNext]_vars

\* sum over the lines of max(1, ceil((w + prefix) / c))
RECURSIVE SumRows(_, _, _)
SumRows(lines, prefix, c) ==
    IF lines = <<>> THEN 0
    ELSE Max(1, ceilDiv(Len(Head(lines)) + prefix, c)) + SumRows(Tail(lines), prefix, c)

\* C13 as stated: the cached row count of a text of single-width characters
\* is the sum over its lines of max(1, ceil((w_i + 2) / c)), the 2-column
\* prefix being counted on every line.
C13_PrefixOnEveryLine ==
    op = "text=" =>
        spinner.lineCount = SumRows(split(arg.text), 2, pre.columns)

\* C13 as amended: the 2-column prefix is counted on the first line only:
\* the row count is max(1, ceil((w_1 + 2) / c)) plus, for every further line,
\* max(1, ceil(w_i / c)).
C13_PrefixOnFirstLine ==
    op = "text=" =>
        spinner.lineCount =
            SumRows(<<Head(split(arg.text))>>, 2, pre.columns)
            + SumRows(Tail(split(arg.text)), 0, pre.columns)

C13_Witness ==
    /\ op = "text="
    /\ Len(split(arg.text)) = 2
    /\ Len(split(arg.text)[2]) = 2
    /\ pre.columns = 3
    /\ spinner.lineCount = 2


PersistOps == {"succeed", "fail", "warn", "info", "stopAndPersist"}

\* the stream.write calls of the last operation
Writes(this) == SelectSeq(this.calls, LAMBDA c : c.c = "write")

\* C14, the call itself: stopAndPersist and succeed/fail/warn/info leave the
\* spinner not spinning and write exactly one line, last of all and ended by a
\* newline, with linesToClear at 0 on a terminal stream.
C14_OneFinalLine ==
    op \in PersistOps =>
        /\ ~Spinner_isSpinning(spinner)
        /\ Len(Writes(spinner)) = 1
        /\ spinner.calls[Len(spinner.calls)] = Writes(spinner)[1]
        /\ Writes(spinner)[1].s[Len(Writes(spinner)[1].s)] = "\n"
        /\ (pre.isEnabled /\ pre.isTTY) => spinner.linesToClear = 0

\* C14: the persisted line is never cleared by a later start, render, tick or
\* stop of the same spinner.
C14_PersistedNeverCleared == C14_OneFinalLine /\ ~spinner.persistedErased


(***************************************************************************)
(* The specification of the async-action wrapper: one call, the ticks of   *)
(* the interval timer while the action is pending, and the settling of the *)
(* action.                                                                 *)
(***************************************************************************)
WrapperStep(name, after) ==
    /\ wrapper' = after.wrapper
    /\ spinner' = after.spinner
    /\ op' = name
    /\ arg' = NoArg
    /\ pre' = enter(spinner)
    /\ UNCHANGED <<prompt, keys, trace, tracing, paging>>

CallPromise ==
    /\ wrapper.pc = "idle"
    /\ \E action \in Actions, overrides \in OverridesArgs, t \in {<<>>, Loading},
          e \in {"undefined", "true", "false"}, tty \in BOOLEAN :
           WrapperStep("promise",
               promise_call(wrapper, spinner, action,
                            Spinner(t, MaxFrames, TRUE, e, tty, FALSE, WideColumns),
                            overrides))

Resolve ==
    /\ wrapper.pc \in {"awaiting", "attached"}
    /\ \E result \in Results :
           WrapperStep("resolve", promise_resolved(wrapper, enter(spinner), result))

Reject ==
    /\ wrapper.pc \in {"awaiting", "attached"}
    /\ \E err \in Failures :
           WrapperStep("reject", promise_rejected(wrapper, enter(spinner), err))

WrapperInit ==
    /\ spinner = IdleSpinner
    /\ prompt = IdlePrompt
    /\ op = "none"
    /\ arg = NoArg
    /\ pre = spinner
    /\ keys = 0
    /\ trace = <<>>
    /\ tracing = FALSE
    /\ wrapper = IdleWrapper
    /\ paging = IdlePaging

WrapperNext ==
    \/ CallPromise
    \/ Resolve
    \/ Reject
    \/ Tick

WrapperSpec == WrapperInit /\ [][WrapperNext]_vars


(***************************************************************************)
(* Claims about the async-action wrapper.                                  *)
(***************************************************************************)
\* the line a persisting call writes for a symbol and a text
PersistedLine(sym, text) == <<sym, "U+2008">> \o text \o <<"\n">>

\* C15: when the action resolves, in both action forms and for every resolved
\* value, the one persisted line is the succeed line whose text is the success
\* override verbatim if one was supplied (the empty string included), otherwise
\* the stringified resolved value.
C15_SucceedText ==
    op = "resolve" =>
        /\ Len(Writes(spinner)) = 1
        /\ Writes(spinner)[1].s =
               PersistedLine("success",
                   IF wrapper.overrides.success.given
                   THEN wrapper.overrides.success.s
                   ELSE wrapper.value.str)


\* C16: when the action fails, in both action forms, the wrapper does not throw
\* or reject, and the failure becomes exactly one persisted fail line whose
\* text is the failure override if one was supplied, otherwise the message of
\* the failure.
C16_FailText ==
    op = "reject" =>
        /\ wrapper.error = ""
        /\ Len(Writes(spinner)) = 1
        /\ Writes(spinner)[1].s =
               PersistedLine("error",
                   IF wrapper.overrides.failure.given
                   THEN wrapper.overrides.failure.s
                   ELSE wrapper.value.message)


\* C17: once the action has settled, spinner.lastResult holds the raw resolved
\* value or the raw failure, in both action forms, with and without an
\* override message.
C17_LastResultCached ==
    op \in {"resolve", "reject"} => spinner.lastResult = wrapper.value


\* C18: an action that is neither a promise in flight nor an async function is
\* refused with a type error before a spinner is constructed or started:
\* nothing is written, no timer is scheduled, the action is not invoked.
C18_FailFast ==
    (wrapper.pc # "idle" /\ wrapper.action \in {"function", "null"}) =>
        /\ wrapper.pc = "rejected"
        /\ wrapper.error = "TypeError"
        /\ ~wrapper.constructed
        /\ ~wrapper.invoked
        /\ spinner = IdleSpinner
        /\ spinner.calls = <<>>
        /\ spinner.timers = {}

C18_Witness ==
    /\ op = "promise"
    /\ wrapper.action = "function"
    /\ wrapper.overrides.present
    /\ wrapper.error = "TypeError"


\* C19: when the caller receives the spinner, in both action forms, the action
\* has settled, lastResult holds its result or failure, the persisted line has
\* been written and the spinner is not spinning.
C19_ReturnedSettled ==
    wrapper.returned =>
        /\ wrapper.pc = "settled"
        /\ spinner.lastResult = wrapper.value
        /\ spinner.persisted
        /\ ~Spinner_isSpinning(spinner)


\* C20: the override messages are optional: a call with a valid action and no
\* overrides argument, or with overrides that lack success or failure, does
\* not throw and constructs and starts the spinner.
C20_OverridesOptional ==
    (op = "promise" /\ typeCheck(wrapper.action)) =>
        /\ wrapper.error = ""
        /\ wrapper.constructed
        /\ wrapper.pc \in {"awaiting", "attached"}


(***************************************************************************)
(* Spinners constructed with a custom frame set, options.spinner = {...}:  *)
(* the set has no frames property, or frames is a list of 0..MaxFrames     *)
(* frames.  The constructor throws only when frames is null or undefined.  *)
(***************************************************************************)
NoFrames == -1
FrameSets == {NoFrames} \cup 0..MaxFrames

\* this.spinner.frames == null
framesMissing(frameSet) == frameSet = NoFrames

FramesInit ==
    /\ \E frameSet \in FrameSets, t \in {<<>>, Loading},
          e \in {"undefined", "true", "false"}, tty \in BOOLEAN :
           IF framesMissing(frameSet)
           THEN spinner = IdleSpinner /\ op = "constructor threw"
           ELSE /\ spinner = Spinner(t, frameSet, TRUE, e, tty, FALSE, WideColumns)
                /\ op = "constructor"
    /\ prompt = IdlePrompt
    /\ arg = NoArg
    /\ pre = spinner
    /\ keys = 0
    /\ trace = <<>>
    /\ tracing = FALSE
    /\ wrapper = IdleWrapper
    /\ paging = IdlePaging

\* no method can be called on a spinner whose construction threw
FramesNext ==
    /\ op # "constructor threw"
    /\ \/ Start
       \/ Stop
       \/ Tick
       \/ StopAndPersist

FramesSpec == FramesInit /\ [][FramesNext]_vars

\* C21: a spinner constructed with a custom frame set has at least one frame,
\* and frameIndex stays an index of frames.
C21_FramesValid ==
    op # "constructor threw" =>
        /\ Len(spinner.frames) >= 1
        /\ spinner.frameIndex \in 0..(Len(spinner.frames) - 1)


\* the line start() writes on a disabled spinner
StaticLine(text) == Write(<<"-", " ">> \o text \o <<"\n">>, "")

\* C22 as stated: on a disabled spinner every write to the stream is the
\* static line "- " + text of start().
C22_OnlyStaticLine ==
    ~spinner.isEnabled =>
        \A i \in 1..Len(spinner.calls) : spinner.calls[i] = StaticLine(spinner.text)

\* C22, amended: a disabled spinner never animates: no call issues a frame, a
\* line-clear or a cursor call; start() writes the static line "- " + text,
\* each persisting call writes its one persisted line, and nothing else is
\* written.
C22_DisabledOutput ==
    ~spinner.isEnabled =>
        /\ \A i \in 1..Len(spinner.calls) : spinner.calls[i].c = "write"
        /\ op = "start" => spinner.calls = <<StaticLine(spinner.text)>>
        /\ op \in PersistOps =>
               /\ Len(spinner.calls) = 1
               /\ SubSeq(spinner.calls[1].s, 2, Len(spinner.calls[1].s))
                      = <<"U+2008">> \o
                        (IF asObject(arg.opts).hasText THEN asObject(arg.opts).text
                         ELSE spinner.text) \o <<"\n">>
        /\ op \notin PersistOps \cup {"start"} => spinner.calls = <<>>

C22_Witness ==
    /\ ~spinner.isEnabled
    /\ op = "fail"
    /\ Len(spinner.calls) = 1
    /\ spinner.calls[1] # StaticLine(spinner.text)
    /\ pre.persisted


\* C23: start() on a spinning spinner creates no timer, writes nothing, and
\* leaves frameIndex, linesToClear and the cursor alone; its only effect is the
\* assignment of the text when a text is passed.
C23_StartIdempotent ==
    (op = "start" /\ Spinner_isSpinning(pre)) =>
        /\ spinner.calls = <<>>
        /\ spinner.timers = pre.timers
        /\ spinner.id = pre.id
        /\ spinner.frameIndex = pre.frameIndex
        /\ spinner.linesToClear = pre.linesToClear
        /\ spinner = IF arg.text # <<>> THEN Spinner_setText(pre, arg.text) ELSE pre

C23_Witness ==
    /\ op = "start"
    /\ Spinner_isSpinning(pre)
    /\ pre.frameIndex > 0
    /\ arg.text # <<>>
    /\ spinner.text # pre.text


\* C24 as stated: stop() on a spinner that is not spinning changes no spinner
\* state and issues no call on the stream.
C24_StopSilent ==
    (op = "stop" /\ ~Spinner_isSpinning(pre)) => spinner = pre

\* C24, amended: stop() on a spinner that is not spinning changes no spinner
\* state, writes no text and clears no line; on an enabled spinner with
\* hideCursor it repeats the show-cursor call, and that is its only call.
C24_StopIdempotent ==
    (op = "stop" /\ ~Spinner_isSpinning(pre)) =>
        /\ enter(spinner) = pre
        /\ spinner.calls = IF pre.isEnabled /\ pre.hideCursor
                           THEN <<ShowCursor>> ELSE <<>>

C24_Witness ==
    /\ op = "stop"
    /\ ~Spinner_isSpinning(pre)
    /\ pre.isEnabled
    /\ pre.isTTY
    /\ pre.persisted
    /\ spinner.calls = <<ShowCursor>>


\* C25: at every render the row count stored into linesToClear is the number
\* of rows the current text occupies at the current width of the stream, also
\* when the width changed after the text was last assigned.
C25_RowCountCurrent ==
    (op \in {"start", "tick"} /\ Spinner_isSpinning(spinner)
        /\ Len(Writes(spinner)) = 1) =>
        spinner.linesToClear = lineCountOf(spinner.text, spinner.columns)


\* C26: on every spinner that animates, whatever the stream, each frame is
\* erased before the next frame or the persisted line is written: a render
\* clears as many lines as the frame on the screen has rows, and after stop()
\* or a persisting call no row of a frame remains.
C26_FramesEphemeral ==
    pre.isEnabled =>
        /\ op = "tick" => LineClears(spinner) = pre.screenRows
        /\ op \in PersistOps \cup {"stop"} => spinner.screenRows = 0


C28_StartedWhilePending ==
    wrapper.pc \in {"awaiting", "attached"} =>
        /\ wrapper.startedFirst
        /\ ~spinner.persisted
        /\ spinner.isEnabled =>
               /\ Spinner_isSpinning(spinner)
               /\ spinner.timers = {spinner.id}
               /\ Len(Writes(spinner)) = 1
               /\ op = "tick" => Writes(spinner)[1].s = frameText(pre)

C28_Witness ==
    /\ wrapper.pc = "awaiting"
    /\ op = "tick"
    /\ pre.frameIndex = 1
    /\ spinner.isEnabled
    /\ Len(Writes(spinner)) = 1


\* C29: when the action of a valid call has settled, exactly one persisted
\* line has been written, the succeed line if the action resolved and the fail
\* line if it failed, and the timer of the spinner is cancelled.
C29_OnePersistedLine ==
    wrapper.pc = "settled" =>
        /\ Len(Writes(spinner)) = 1
        /\ Writes(spinner)[1].s[1] =
               (IF wrapper.outcome = "resolved" THEN "success" ELSE "error")
        /\ Writes(spinner)[1].s[Len(Writes(spinner)[1].s)] = "\n"
        /\ ~Spinner_isSpinning(spinner)
        /\ spinner.timers = {}


(***************************************************************************)
(* The specification of the paging loop: a page is built and prompted, the *)
(* user picks one of its choices or cancels, the offset is moved, and the  *)
(* loop condition decides between another page and the chosen tag.         *)
(***************************************************************************)
PagingStep(name, after) ==
    /\ paging' = after
    /\ op' = name
    /\ UNCHANGED <<prompt, spinner, arg, pre, keys, trace, tracing, wrapper>>

\* the loop body up to the prompt
BuildPage ==
    /\ paging.pc = "loop"
    /\ PagingStep("page",
           [paging EXCEPT !.pc = "prompt",
                          !.endPos = endPosOf(paging.offset, paging.tags),
                          !.pageChoices = pageChoicesOf(paging.offset, paging.tags)])

\* the prompt answers with the value of one choice of the page; the rest of
\* the loop body and the test of the loop condition follow
Choose ==
    /\ paging.pc = "prompt"
    /\ \E i \in 1..Len(paging.pageChoices) :
           LET choice == paging.pageChoices[i]
               offset == IF choice = PREV THEN paging.offset - PAGE_SIZE
                         ELSE IF choice = NEXT THEN paging.offset + PAGE_SIZE
                         ELSE paging.offset
           IN PagingStep("choose",
                  [paging EXCEPT !.choice = choice,
                                 !.offset = offset,
                                 !.selected = findIndex(paging.pageChoices, choice),
                                 !.pc = IF loopCondition(choice) THEN "loop" ELSE "chosen",
                                 !.tag = IF loopCondition(choice) THEN NoChoice ELSE choice])

\* onCancel: process.exit(0)
Cancel ==
    /\ paging.pc = "prompt"
    /\ PagingStep("cancel", [paging EXCEPT !.pc = "exited"])

PagingInit ==
    /\ \E tags \in MinTags..MaxTags :
           paging = [IdlePaging EXCEPT !.pc = "loop", !.tags = tags]
    /\ prompt = IdlePrompt
    /\ spinner = IdleSpinner
    /\ op = "none"
    /\ arg = NoArg
    /\ pre = spinner
    /\ keys = 0
    /\ trace = <<>>
    /\ tracing = FALSE
    /\ wrapper = IdleWrapper

PagingNext ==
    \/ BuildPage
    \/ Choose
    \/ Cancel

PagingSpec == PagingInit /\ [][PagingNext]_vars

\* the tags a page at offset has room for
SlotOf(offset, tags) == {e \in 0..(tags - 1) : offset <= e /\ e < offset + PAGE_SIZE}

\* the tag values among the choices of a page
Entries(pageChoices) ==
    {pageChoices[i] : i \in 1..Len(pageChoices)} \ {PREV, NEXT}

\* C30: the page offset is a non-negative multiple of the page size below the
\* length of the list, and every entry of the list is offered on exactly one
\* page that Next/Previous page reach: a prompted page offers the entries of
\* its slot and no other, Next page is offered whenever entries follow the
\* slot, and Previous page whenever entries precede it.
C30_EveryTagOffered ==
    /\ paging.offset >= 0
    /\ paging.offset % PAGE_SIZE = 0
    /\ paging.offset < paging.tags
    /\ paging.pc = "prompt" =>
           /\ Entries(paging.pageChoices) = SlotOf(paging.offset, paging.tags)
           /\ (\E i \in 1..Len(paging.pageChoices) : paging.pageChoices[i] = NEXT)
                  <=> paging.offset + PAGE_SIZE < paging.tags
           /\ (\E i \in 1..Len(paging.pageChoices) : paging.pageChoices[i] = PREV)
                  <=> paging.offset > 0


\* C31: the loop ends as soon as the user picks a tag entry: after any choice
\* other than Previous page / Next page, master included, the loop is left
\* with exactly that tag chosen; only Previous page and Next page lead to
\* another page.
C31_TagEndsLoop ==
    op = "choose" =>
        IF paging.choice \in {PREV, NEXT}
        THEN paging.pc = "loop"
        ELSE paging.pc = "chosen" /\ paging.tag = paging.choice

====
